---- MODULE Spec2Model ----
(***************************************************************************)
(* A model of git-repo-analyzer: the orchestrator analyze_repository with  *)
(* its two CLI commands, the repository stat collector, the language       *)
(* classifier, the complexity scanner, the three report emitters and the   *)
(* chart/table builders of report_builder.py.                              *)
(*                                                                         *)
(* Python values are modelled as follows.  None is the empty sequence and  *)
(* a present value v is <<v>> (Some(v)).  A dict is a sequence of          *)
(* <<key, value>> pairs in insertion order where the order is observable   *)
(* (a stable sort, an iteration) and a set of such pairs where it is not.  *)
(* A path string is a record of its parts.  A file's content is abstracted *)
(* to the quantities the code reads from it.                               *)
(***************************************************************************)
EXTENDS Integers, Sequences, FiniteSets, TLC

VARIABLES
    \* ---- the world outside the tool
    commits,          \* commits reachable from HEAD in the project, newest first
    build,            \* which optional modules imported (analyzer.py 15-33)
    fs,               \* the files on disk: a set of [dir, sub, name, kind]
    made_dirs,        \* directories the tool created with os.makedirs
    \* ---- one invocation
    run,              \* "first" or "second" invocation on this world
    pc,               \* position of the invocation
    argv,             \* the parsed command line of a CLI invocation, else None
    args,             \* the arguments of analyze_repository
    repo_path,        \* local variable repo_path
    repo_results,     \* local variable repo_results (None until collected)
    file_complexity,  \* local variable file_complexity
    language_sizes,   \* local variable language_sizes
    emitted,          \* report files written by this invocation
    md_doc,           \* the Markdown document this invocation wrote (None if none)
    console,          \* messages printed by this invocation, in order
    result,           \* how the invocation ended
    first,            \* what the first invocation returned, kept for comparison
    \* ---- report_builder / file_scanner functions applied on their own
    fn_input,         \* the argument the function under study is applied to
    fn_output         \* the call made on it: its parameters, what it returned and drew

runVars == <<commits, build, fs, made_dirs, run, pc, argv, args, repo_path,
             repo_results, file_complexity, language_sizes, emitted, md_doc,
             console, result, first>>
fnVars == <<fn_input, fn_output>>
vars == <<commits, build, fs, made_dirs, run, pc, argv, args, repo_path,
          repo_results, file_complexity, language_sizes, emitted, md_doc,
          console, result, first, fn_input, fn_output>>

None == <<>>
Some(v) == <<v>>
IsNone(o) == o = <<>>
IsSome(o) == Len(o) = 1
The(o) == o[1]

NotCalled == [called |-> FALSE, max_rows |-> 0, ret |-> None, plot |-> None]
Called(max_rows, ret, plot) ==
    [called |-> TRUE, max_rows |-> max_rows, ret |-> ret, plot |-> plot]

(***************************************************************************)
(* Bounds of the model.                                                    *)
(***************************************************************************)
MaxCommits == 3
MaxFiles == 3
MaxLanguages == 9
MaxDates == 3

Range(s) == {s[i] : i \in DOMAIN s}

RECURSIVE SeqsUpTo(_, _)
SeqsUpTo(S, n) ==
    IF n = 0 THEN {<<>>}
    ELSE LET shorter == SeqsUpTo(S, n - 1)
         IN  shorter \cup {Append(s, x) : s \in {t \in shorter : Len(t) = n - 1}, x \in S}

RECURSIVE SumSeq(_)
SumSeq(s) == IF s = <<>> THEN 0 ELSE s[1] + SumSeq(Tail(s))

(***************************************************************************)
(* The world: paths, URLs, repositories, files.                            *)
(***************************************************************************)
\* A source string: scheme prefix, body, suffix.
Str(scheme, body, suffix) == [scheme |-> scheme, body |-> body, suffix |-> suffix]

LocalStrings == {Str("", b, "") : b \in {"work", "empty", "plain", "missing"}}
UrlStrings == {Str("https://", "good", ""), Str("https://", "bad", ""),
               Str("", "git@host:good", ".git")}

\* The author of a commit is absent (None) or an Actor with a name.
AuthorChoices == {None, Some("A"), Some("B")}
CommitDate == <<2000, 9, 14>>
Commit(a) == [author |-> a, committed_date |-> CommitDate]
Histories == {[i \in DOMAIN s |-> Commit(s[i])] :
                 s \in SeqsUpTo(AuthorChoices, MaxCommits) \ {<<>>}}

\* Optional modules that imported: analyze_files, generate_html_report, md_report.
Build(scan, html, md) == [analyze_files |-> scan, generate_html_report |-> html,
                          md_report |-> md]
Builds == {Build(TRUE, TRUE, TRUE), Build(TRUE, FALSE, TRUE),
           Build(TRUE, TRUE, FALSE), Build(FALSE, TRUE, TRUE)}

File(dir, sub, name, kind) == [dir |-> dir, sub |-> sub, name |-> name, kind |-> kind]

\* What a checkout of the project holds.
Checkout(dir) == {File(dir, ".git", "config", "gitmeta"),
                  File(dir, "", "main.py", "py"),
                  File(dir, "", "blob.bin", "bin")}
InitialFiles == Checkout("work")
                  \cup {File("empty", ".git", "config", "gitmeta")}
                  \cup {File("plain", "", "notes.txt", "bin")}

\* is_git_url (analyzer.py 36-37)
is_git_url(s) == s.scheme \in {"http://", "https://"} \/ s.suffix = ".git"

\* os.path.abspath(value) followed by what Repo(path) finds there.
abspath(s) == IF s.scheme = "" /\ s.suffix = "" THEN s.body ELSE "missing"

\* What Repo(repo_path) does (analyzer.py 113-117): the directory is missing
\* (NoSuchPathError), holds no .git (InvalidGitRepositoryError), or opens.
RepoOpen(path) ==
    IF \A f \in fs : f.dir # path THEN "NoSuchPathError"
    ELSE IF \A f \in fs : ~(f.dir = path /\ f.sub = ".git") THEN "InvalidGitRepositoryError"
    ELSE "ok"

\* The commits of the repository at path: a checkout of the project has the
\* project's history, the repository "empty" has none.
RepoCommits(path) == IF path = "empty" THEN <<>> ELSE commits

(***************************************************************************)
(* File contents, abstracted to what the scanners read: the size in bytes, *)
(* the number of line terminators and the number of occurrences of each of *)
(* the three keyword substrings; and the lexer pygments finds for the file *)
(* name (None: ClassNotFound).                                             *)
(***************************************************************************)
Text(size, newlines, defs, functions, funcs) ==
    [readable |-> TRUE, size |-> size, newlines |-> newlines, def_ |-> defs,
     function_ |-> functions, func_ |-> funcs]
Unreadable == [readable |-> FALSE, size |-> 0, newlines |-> 0, def_ |-> 0,
               function_ |-> 0, func_ |-> 0]

Content(f) ==
    CASE f.kind = "py"   -> Text(120, 9, 2, 0, 0)
      [] f.kind = "bin"  -> Text(64, 0, 0, 0, 0)
      [] f.kind = "json" -> Text(300, 20, 0, 0, 0)
      [] f.kind = "md"   -> Text(200, 25, 0, 0, 0)
      [] f.kind = "html" -> Text(900, 80, 0, 0, 0)
      [] f.kind = "png"  -> Text(500, 3, 0, 0, 0)
      [] OTHER           -> Text(30, 2, 0, 0, 0)

guess_lexer_for_filename(f) ==
    CASE f.kind = "py"   -> Some("Python")
      [] f.kind = "json" -> Some("JSON")
      [] f.kind = "md"   -> Some("Markdown")
      [] f.kind = "html" -> Some("HTML")
      [] OTHER           -> None

\* A dict whose order is not observable is a set of <<key, value>> pairs.
Keys(d) == {p[1] : p \in d}
Get(d, k) == IF k \in Keys(d) THEN Some((CHOOSE p \in d : p[1] = k)[2]) ELSE None

RECURSIVE SumSizes(_)
SumSizes(files) ==
    IF files = {} THEN 0
    ELSE LET f == CHOOSE x \in files : TRUE
         IN  Content(f).size + SumSizes(files \ {f})

\* repo_files (utils.py 4-8): every file under root outside .git
repo_files(root) == {f \in fs : f.dir = root /\ f.sub # ".git"}

\* get_language_usage (analyzer.py 54-75): the same walk; a file whose name has
\* no lexer is skipped, the others add their size to their language.
get_language_usage(root) ==
    LET walked == {f \in fs : f.dir = root /\ f.sub # ".git"}
        known == {f \in walked : Content(f).readable /\ IsSome(guess_lexer_for_filename(f))}
        langs == {The(guess_lexer_for_filename(f)) : f \in known}
    IN  {<<l, SumSizes({f \in known : The(guess_lexer_for_filename(f)) = l})>> : l \in langs}

\* scan_complexity (file_scanner.py 3-19); a metric record is a dict, {} on a
\* read failure.
scan_complexity(text) ==
    IF ~text.readable THEN {}
    ELSE {<<"lines", text.newlines + 1>>,
          <<"functions", text.def_ + text.function_ + text.func_>>}

\* analyze_files (file_scanner.py 21-27)
analyze_files(root) == {<<f, scan_complexity(Content(f))>> : f \in repo_files(root)}

(***************************************************************************)
(* The repository stat collector (analyzer.py 119-131).                    *)
(***************************************************************************)
\* c.author.name if c.author else "Unknown"
AuthorNameBlank(c) == IF IsSome(c.author) THEN The(c.author) ELSE ""
AuthorName(c) == IF IsSome(c.author) THEN The(c.author) ELSE "Unknown"

\* dict(Counter(authors)): one pass, a first occurrence appends <<name, 1>>, a
\* later one adds 1 in place.
RECURSIVE CounterFrom(_, _)
CounterFrom(names, acc) ==
    IF names = <<>> THEN acc
    ELSE LET n == names[1]
             at == {i \in DOMAIN acc : acc[i][1] = n}
         IN  CounterFrom(Tail(names),
                 IF at = {} THEN Append(acc, <<n, 1>>)
                 ELSE [i \in DOMAIN acc |->
                          IF i \in at THEN <<n, acc[i][2] + 1>> ELSE acc[i]])
Counter(names) == CounterFrom(names, <<>>)

CollectStats(path, cs, show_branches) ==
    [path |-> path,
     total_commits |-> Len(cs),
     authors |-> Counter([i \in DOMAIN cs |-> AuthorName(cs[i])]),
     commit_dates |-> [i \in DOMAIN cs |-> cs[i].committed_date],
     branches |-> IF show_branches THEN Some(<<"main">>) ELSE None]

(***************************************************************************)
(* generate_markdown_report (report.py 6-69).  The document is abstracted  *)
(* to its summary counts, the rows of its author table and its two image   *)
(* links (None: the link is not in the document).                          *)
(***************************************************************************)
\* sorted(items, key=count, reverse=True): stable, descending.
RECURSIVE SortedDescByCount(_)
SortedDescByCount(items) ==
    IF items = <<>> THEN <<>>
    ELSE LET rest == SortedDescByCount(Tail(items))
             x == items[1]
             before == SelectSeq(rest, LAMBDA y : y[2] > x[2])
             after == SelectSeq(rest, LAMBDA y : y[2] <= x[2])
         IN  before \o <<x>> \o after

generate_markdown_report(path, total_commits, author_counts, chart_path, language_chart_path) ==
    [path |-> path,
     total_commits |-> total_commits,
     contributors |-> Len(author_counts),
     table |-> Some(SortedDescByCount(author_counts)),
     commit_link |-> Some(chart_path),
     language_link |-> IF IsSome(language_chart_path)
                       THEN Some(The(language_chart_path)) ELSE None]

\* The inline fallback of analyze_repository (analyzer.py 180-183): a title and
\* the commit count, nothing else.
fallback_markdown(path, total_commits) ==
    [path |-> path, total_commits |-> total_commits, contributors |-> 0,
     table |-> None, commit_link |-> None, language_link |-> None]

(***************************************************************************)
(* generate_html_report (report_builder.py 153-268): the files it writes.  *)
(* A chart image is written when its input is non-empty; the name of a     *)
(* chart carries the time of the call, here the invocation.                *)
(***************************************************************************)
ReportsSub == ".analysis_reports"
ChartsSub == ".analysis_reports/charts"

html_report_files(path, stamp, commit_dates, languages) ==
    (IF commit_dates # <<>> THEN {File(path, ChartsSub, <<"commits", stamp>>, "png")} ELSE {})
      \cup (IF languages # {} THEN {File(path, ChartsSub, <<"languages", stamp>>, "png")} ELSE {})
      \cup {File(path, ReportsSub, <<"report", "html">>, "html")}

(***************************************************************************)
(* Inputs of an invocation.                                                *)
(***************************************************************************)
Lower(s) == CASE s = "HTML" -> "html" [] s = "MD" -> "md" [] OTHER -> s

ApiReports == {None, Some("json"), Some("markdown"), Some("html"), Some("HTML"), Some("pdf")}
\* What the user may type after --report; click.Choice(["html", "md"]) decides.
CliReportTokens == {None, Some("json"), Some("md"), Some("html")}
ReportChoice == {"html", "md"}

\* The empty string is a value the command line can carry (--url "").
EmptyString == Str("", "", "")
ScanPaths == {None, Some(EmptyString), Some(Str("", "work", "")),
              Some(Str("https://", "good", ""))}
AnalyzeLocals == {None, Some(EmptyString), Some(Str("", "work", "")),
                  Some(Str("", "missing", ""))}
AnalyzeUrls == {None, Some(EmptyString), Some(Str("https://", "good", ""))}
AnalyzePaths == {None, Some(EmptyString), Some(Str("", "plain", ""))}

\* The truth value of an optional string, as "if local:" tests it: None and
\* the empty string are false.
StrTruthy(o) == IsSome(o) /\ The(o) # EmptyString

NoArgs == [mode |-> "", value |-> Str("", "", ""), report |-> None,
           show_branches |-> FALSE, complexity |-> FALSE]
Args(mode, value, report, sb, cx) ==
    [mode |-> mode, value |-> value, report |-> report, show_branches |-> sb,
     complexity |-> cx]

Running == [status |-> "running", value |-> None, exc |-> ""]
Returned(v) == [status |-> "returned", value |-> v, exc |-> ""]
Raised(e) == [status |-> "raised", value |-> None, exc |-> e]

\* os.path.exists, for click.Path(exists=True)
PathExists(s) == s # EmptyString /\ \E f \in fs : f.dir = abspath(s)

Init ==
    /\ commits \in Histories
    /\ build \in Builds
    /\ fs = InitialFiles
    /\ made_dirs = {}
    /\ run = "first"
    /\ pc = "idle"
    /\ argv = None
    /\ args = NoArgs
    /\ repo_path = ""
    /\ repo_results = None
    /\ file_complexity = None
    /\ language_sizes = {}
    /\ emitted = {}
    /\ md_doc = None
    /\ console = <<>>
    /\ result = Running
    /\ first = Running
    /\ fn_input = <<>>
    /\ fn_output = NotCalled

world == <<commits, build>>
locals == <<repo_path, repo_results, file_complexity, language_sizes, emitted, md_doc>>

\* analyze_repository entered (analyzer.py 97-104): a tuple names its mode.
Enter(mode, value, report, sb, cx) ==
    /\ args' = Args(mode, value, report, sb, cx)
    /\ pc' = "resolve"
    /\ UNCHANGED <<world, fs, made_dirs, run, locals, console, result, first, fnVars>>

\* analyze_repository called with a plain string (analyzer.py 100-102)
ApiCall ==
    /\ pc = "idle"
    /\ \E src \in LocalStrings \cup UrlStrings, report \in ApiReports, sb, cx \in BOOLEAN :
          Enter(IF is_git_url(src) THEN "url" ELSE "local", src, report, sb, cx)
    /\ argv' = None

\* The command line is typed.
CliInvoke ==
    /\ pc = "idle"
    /\ pc' = "cli"
    /\ \E report \in CliReportTokens, sb, cx \in BOOLEAN :
          \/ \E path \in ScanPaths :
                argv' = Some([cmd |-> "scan", path |-> path, url |-> None, local |-> None,
                              report |-> report, show_branches |-> sb, complexity |-> cx])
          \/ \E path \in AnalyzePaths, url \in AnalyzeUrls, local \in AnalyzeLocals :
                argv' = Some([cmd |-> "analyze", path |-> path, url |-> url, local |-> local,
                              report |-> report, show_branches |-> sb, complexity |-> cx])
    /\ UNCHANGED <<world, fs, made_dirs, run, args, locals, console, result, first, fnVars>>

\* click refuses the command line: a --report outside the Choice, or a --local
\* that does not exist (cli.py 14, 31, 32).
ClickAccepts(a) ==
    /\ IsSome(a.report) => The(a.report) \in ReportChoice
    /\ IsSome(a.local) => PathExists(The(a.local))

UsageError ==
    /\ pc = "cli"
    /\ ~ClickAccepts(The(argv))
    /\ pc' = "done"
    /\ result' = [status |-> "usage", value |-> None, exc |-> ""]
    /\ UNCHANGED <<world, fs, made_dirs, run, argv, args, locals, console, first, fnVars>>

\* scan (cli.py 12-24)
scan ==
    /\ pc = "cli"
    /\ The(argv).cmd = "scan"
    /\ ClickAccepts(The(argv))
    /\ LET a == The(argv) IN
          \/ /\ ~StrTruthy(a.path)
             /\ pc' = "done"
             /\ console' = Append(console, "please_specify_path")
             /\ result' = [status |-> "echo", value |-> None, exc |-> ""]
             /\ UNCHANGED <<world, fs, made_dirs, run, argv, args, locals, first, fnVars>>
          \/ /\ StrTruthy(a.path)
             /\ Enter("local", The(a.path), a.report, a.show_branches, a.complexity)
             /\ UNCHANGED argv

\* analyze (cli.py 28-47)
\* cli.py 37-45 with the first two tests in the other order
AnalyzeSourceUrlFirst(a) ==
    IF StrTruthy(a.url) THEN Some(<<"url", The(a.url)>>)
    ELSE IF StrTruthy(a.local) THEN Some(<<"local", The(a.local)>>)
    ELSE IF StrTruthy(a.path) THEN Some(<<"local", The(a.path)>>)
    ELSE None

AnalyzeSource(a) ==
    IF StrTruthy(a.local) THEN Some(<<"local", The(a.local)>>)
    ELSE IF StrTruthy(a.url) THEN Some(<<"url", The(a.url)>>)
    ELSE IF StrTruthy(a.path) THEN Some(<<"local", The(a.path)>>)
    ELSE None

analyze ==
    /\ pc = "cli"
    /\ The(argv).cmd = "analyze"
    /\ ClickAccepts(The(argv))
    /\ LET a == The(argv)
           src == AnalyzeSource(a)
       IN \/ /\ IsNone(src)
             /\ pc' = "done"
             /\ console' = Append(console, "provide_path_or_url")
             /\ result' = [status |-> "echo", value |-> None, exc |-> ""]
             /\ UNCHANGED <<world, fs, made_dirs, run, argv, args, locals, first, fnVars>>
          \/ /\ IsSome(src)
             /\ Enter(The(src)[1], The(src)[2], a.report, a.show_branches, a.complexity)
             /\ UNCHANGED argv

(***************************************************************************)
(* analyze_repository, block by block.                                     *)
(***************************************************************************)
CloneDir == IF run = "first" THEN "cloned_repos/good_t1" ELSE "cloned_repos/good_t2"

\* The handler of GitCommandError (analyzer.py 208-210)
GitError(printed) ==
    /\ console' = console \o printed \o <<"git_error">>
    /\ result' = Returned(None)
    /\ pc' = "done"

\* analyzer.py 106-111: clone_repo_from_url (40-51) or os.path.abspath
Resolve ==
    /\ pc = "resolve"
    /\ \/ /\ args.mode = "url"
          /\ args.value.body \in {"good", "git@host:good"}
          /\ made_dirs' = made_dirs \cup {<<"", "cloned_repos">>}
          /\ fs' = fs \cup Checkout(CloneDir)
          /\ repo_path' = CloneDir
          /\ console' = Append(console, "cloning")
          /\ pc' = "open"
          /\ UNCHANGED result
       \/ /\ args.mode = "url"
          /\ args.value.body \notin {"good", "git@host:good"}
          /\ made_dirs' = made_dirs \cup {<<"", "cloned_repos">>}
          /\ GitError(<<"cloning">>)
          /\ UNCHANGED <<fs, repo_path>>
       \/ /\ args.mode # "url"
          /\ repo_path' = abspath(args.value)
          /\ pc' = "open"
          /\ UNCHANGED <<fs, made_dirs, console, result>>
    /\ argv' = None
    /\ UNCHANGED <<world, run, args, repo_results, file_complexity,
                   language_sizes, emitted, md_doc, first, fnVars>>

\* analyzer.py 113-117 with the "return None" of the handler left out
OpenRepoFallsThrough ==
    /\ pc = "open"
    /\ \/ /\ RepoOpen(repo_path) = "InvalidGitRepositoryError"
          /\ console' = Append(console, "not_valid_repo")
          /\ pc' = "collect"
          /\ UNCHANGED result
       \/ /\ RepoOpen(repo_path) = "NoSuchPathError"
          /\ result' = Raised("NoSuchPathError")
          /\ pc' = "done"
          /\ UNCHANGED console
       \/ /\ RepoOpen(repo_path) = "ok"
          /\ pc' = "collect"
          /\ UNCHANGED <<console, result>>
    /\ UNCHANGED <<world, fs, made_dirs, run, argv, args, locals, first, fnVars>>

\* analyzer.py 113-117: Repo(repo_path)
OpenRepo ==
    /\ pc = "open"
    /\ \/ /\ RepoOpen(repo_path) = "InvalidGitRepositoryError"
          /\ console' = Append(console, "not_valid_repo")
          /\ result' = Returned(None)
          /\ pc' = "done"
       \/ /\ RepoOpen(repo_path) = "NoSuchPathError"
          /\ result' = Raised("NoSuchPathError")
          /\ pc' = "done"
          /\ UNCHANGED console
       \/ /\ RepoOpen(repo_path) = "ok"
          /\ pc' = "collect"
          /\ UNCHANGED <<console, result>>
    /\ UNCHANGED <<world, fs, made_dirs, run, argv, args, locals, first, fnVars>>

\* analyzer.py 119-139: the commits, the author histogram, the console summary.
\* repo.iter_commits() raises on a repository without commits: GitPython's
\* error for the unborn HEAD, a ValueError, which no handler of
\* analyze_repository catches, or a GitCommandError from git itself.
Collect ==
    /\ pc = "collect"
    /\ \/ /\ RepoCommits(repo_path) = <<>>
          /\ result' = Raised("ValueError")
          /\ pc' = "done"
          /\ UNCHANGED <<repo_results, console>>
       \/ /\ RepoCommits(repo_path) = <<>>
          /\ GitError(<<>>)
          /\ UNCHANGED repo_results
       \/ /\ RepoCommits(repo_path) # <<>>
          /\ repo_results' = Some(CollectStats(repo_path, RepoCommits(repo_path),
                                               args.show_branches))
          /\ console' = Append(console, "summary")
          /\ pc' = "scan"
          /\ UNCHANGED result
    /\ UNCHANGED <<world, fs, made_dirs, run, argv, args, repo_path, file_complexity,
                   language_sizes, emitted, md_doc, first, fnVars>>

\* analyzer.py 141-147: the optional complexity scan and the language classifier
ScanFiles ==
    /\ pc = "scan"
    /\ file_complexity' = IF args.complexity /\ build.analyze_files
                          THEN Some(analyze_files(repo_path)) ELSE None
    /\ language_sizes' = get_language_usage(repo_path)
    /\ console' = console \o (IF args.complexity THEN <<"complexity_done">> ELSE <<>>)
                          \o <<"languages">>
    /\ pc' = "report"
    /\ UNCHANGED <<world, fs, made_dirs, run, argv, args, repo_path, repo_results,
                   emitted, md_doc, result, first, fnVars>>

\* analyzer.py 152-203: the requested report.  reports_dir_for_repo makes the
\* directory whatever the format; the three emitters are tried in turn.
Write(files) ==
    /\ fs' = fs \cup files
    /\ emitted' = emitted \cup files

\* A value formatted into a Markdown link: a path, or whatever else was passed.
AsPath(p) == [kind |-> "path", path |-> p, items |-> <<>>]
AsList(l) == [kind |-> "list", path |-> "", items |-> l]

Ext == Lower(The(args.report))

\* analyzer.py 166-169
EmitJson ==
    /\ Ext = "json"
    /\ made_dirs' = made_dirs \cup {<<repo_path, ReportsSub>>}
    /\ Write({File(repo_path, ReportsSub, <<"report", "json">>, "json")})
    /\ console' = Append(console, "json_saved")
    /\ UNCHANGED md_doc

\* analyzer.py 172-184: md_report is given commit_dates where it expects the
\* chart path, and None for the language chart; no chart is built on this path.
\* generate_markdown_report writes reports/REPORT.md under the current
\* directory, which is the working copy or some other directory.
EmitMarkdown ==
    /\ Ext \in {"md", "markdown"}
    /\ LET r == The(repo_results) IN
          \/ /\ build.md_report
             /\ \E cwd \in {repo_path, "elsewhere"} :
                   /\ made_dirs' = made_dirs \cup {<<repo_path, ReportsSub>>, <<cwd, "reports">>}
                   /\ Write({File(cwd, "reports", <<"REPORT", "md">>, "md")})
             /\ md_doc' = Some(generate_markdown_report(repo_path, r.total_commits,
                                  r.authors, AsList(r.commit_dates), None))
          \/ /\ ~build.md_report
             /\ made_dirs' = made_dirs \cup {<<repo_path, ReportsSub>>}
             /\ Write({File(repo_path, ReportsSub, <<"report", "md">>, "md")})
             /\ md_doc' = Some(fallback_markdown(repo_path, r.total_commits))
    /\ console' = Append(console, "md_saved")

\* analyzer.py 187-203, with the availability test left out
EmitHtmlUnchecked ==
    /\ Ext = "html"
    /\ made_dirs' = made_dirs \cup {<<repo_path, ReportsSub>>, <<repo_path, ChartsSub>>}
    /\ Write(html_report_files(repo_path, run, The(repo_results).commit_dates,
                               language_sizes))
    /\ console' = Append(console, "html_saved")
    /\ UNCHANGED md_doc

\* analyzer.py 187-203
EmitHtml ==
    /\ Ext = "html"
    /\ \/ /\ build.generate_html_report
          /\ made_dirs' = made_dirs \cup {<<repo_path, ReportsSub>>, <<repo_path, ChartsSub>>}
          /\ Write(html_report_files(repo_path, run, The(repo_results).commit_dates,
                                     language_sizes))
          /\ console' = Append(console, "html_saved")
       \/ /\ ~build.generate_html_report
          /\ made_dirs' = made_dirs \cup {<<repo_path, ReportsSub>>}
          /\ console' = Append(console, "html_unavailable")
          /\ UNCHANGED <<fs, emitted>>
    /\ UNCHANGED md_doc

\* analyzer.py 152-203: the requested report.  reports_dir_for_repo makes the
\* directory whatever the format; a format none of the three tests matches
\* writes nothing.
Report ==
    /\ pc = "report"
    /\ pc' = "complete"
    /\ \/ /\ IsNone(args.report)
          /\ UNCHANGED <<fs, made_dirs, emitted, md_doc, console>>
       \/ /\ IsSome(args.report)
          /\ \/ EmitJson
             \/ EmitMarkdown
             \/ EmitHtml
             \/ /\ Ext \notin {"json", "md", "markdown", "html"}
                /\ made_dirs' = made_dirs \cup {<<repo_path, ReportsSub>>}
                /\ UNCHANGED <<fs, emitted, md_doc, console>>
    /\ UNCHANGED <<world, run, argv, args, repo_path, repo_results, file_complexity,
                   language_sizes, result, first, fnVars>>

\* analyzer.py 205-206
Complete ==
    /\ pc = "complete"
    /\ console' = Append(console, "complete")
    /\ result' = Returned(Some([repo |-> The(repo_results), languages |-> language_sizes,
                                complexity |-> file_complexity]))
    /\ pc' = "done"
    /\ UNCHANGED <<world, fs, made_dirs, run, argv, args, locals, first, fnVars>>

\* The same call is made a second time; nothing but the tool has touched the disk.
Rerun ==
    /\ pc = "done"
    /\ run = "first"
    /\ result.status \in {"returned", "raised"}
    /\ run' = "second"
    /\ first' = result
    /\ pc' = "resolve"
    /\ repo_path' = ""
    /\ repo_results' = None
    /\ file_complexity' = None
    /\ language_sizes' = {}
    /\ emitted' = {}
    /\ md_doc' = None
    /\ console' = <<>>
    /\ result' = Running
    /\ UNCHANGED <<world, fs, made_dirs, argv, args, fnVars>>

Next ==
    \/ ApiCall
    \/ CliInvoke
    \/ UsageError
    \/ scan
    \/ analyze
    \/ Resolve
    \/ OpenRepo
    \/ Collect
    \/ ScanFiles
    \/ Report
    \/ Complete
    \/ Rerun

Spec == Init /\ [][Next]_vars

(***************************************************************************)
(* Properties of the orchestrator, checked under Spec.                     *)
(***************************************************************************)
Last(q) == q[Len(q)]
ReportKinds == {"json", "md", "html"}
Kinds(files) == {f.kind : f \in files}
Succeeded == pc = "done" /\ result.status = "returned" /\ IsSome(result.value)

\* The name a commit is counted under, as the specification words it.
CountedUnder(c) == IF c.author = None THEN "Unknown" ELSE c.author[1]

\* C1: once the commits of an opened repository are collected, the author
\* histogram's counts sum to the number N of commits, which is total_commits;
\* its keys are exactly the author names, "Unknown" standing for an absent
\* author; each key's count is the number of commits by that author; authors
\* A, A, B give {A: 2, B: 1} and total_commits = 3.  The returned result
\* carries these statistics.
C1_AuthorHistogram ==
    IsSome(repo_results) =>
        LET r == The(repo_results)
            cs == RepoCommits(repo_path)
            N == Len(cs)
        IN  /\ r.total_commits = N
            /\ SumSeq([i \in DOMAIN r.authors |-> r.authors[i][2]]) = N
            /\ {r.authors[i][1] : i \in DOMAIN r.authors} = {CountedUnder(cs[j]) : j \in 1..N}
            /\ \A i \in DOMAIN r.authors :
                  r.authors[i][2] =
                      Cardinality({j \in 1..N : CountedUnder(cs[j]) = r.authors[i][1]})
            /\ \A i, k \in DOMAIN r.authors : r.authors[i][1] = r.authors[k][1] => i = k
            /\ ([j \in 1..N |-> cs[j].author] = <<Some("A"), Some("A"), Some("B")>>
                    => r.authors = <<(<<"A", 2>>), (<<"B", 1>>)>> /\ r.total_commits = 3)
            /\ (Succeeded => The(result.value).repo = r)

C1_Witness ==
    /\ Succeeded
    /\ [j \in DOMAIN commits |-> commits[j].author] = <<Some("A"), None, Some("A")>>
    /\ The(result.value).repo.authors = <<(<<"A", 2>>), (<<"Unknown", 1>>)>>

\* The invocation's target is a repository without commits.
OnEmptyRepository == args.mode = "local" /\ abspath(args.value) = "empty"

\* C2: a run on a repository without commits, whatever report format is
\* requested, ends having printed an "empty repository" message and having
\* written no report file.
C2_EmptyRepositoryIsReported ==
    (OnEmptyRepository /\ pc = "done") =>
        /\ "empty_repository" \in Range(console)
        /\ emitted = {}

\* The invocation fails at the VCS layer: the clone of the URL fails, or the
\* local path holds no git repository.
CloneFails == args.mode = "url" /\ args.value.body = "bad"
NotARepository == args.mode = "local" /\ abspath(args.value) = "plain"
VcsFailure == CloneFails \/ NotARepository
\* The local path does not exist: Repo raises NoSuchPathError, which
\* analyze_repository does not handle.
NoSuchPath == args.mode = "local" /\ abspath(args.value) = "missing"

\* C3: a run that fails at the VCS layer (the clone fails, or the path holds
\* no git repository) never gets past opening the repository, so it reaches no
\* report-writing step; it writes no file at all, and it ends by printing the
\* failure and returning None.  A run on a path that does not exist writes
\* nothing either, and ends in the exception.
C3_VcsFailureEmitsNothing ==
    /\ VcsFailure =>
           /\ pc \in {"resolve", "open", "done"}
           /\ emitted = {}
           /\ md_doc = None
           /\ fs = InitialFiles
           /\ \A f \in fs : f.kind \notin ReportKinds \cup {"png"}
           /\ (pc = "done" =>
                  /\ result = Returned(None)
                  /\ console # <<>>
                  /\ Last(console) = (IF CloneFails THEN "git_error" ELSE "not_valid_repo"))
    /\ NoSuchPath =>
           /\ pc \in {"resolve", "open", "done"}
           /\ emitted = {}
           /\ fs = InitialFiles
           /\ (pc = "done" => result = Raised("NoSuchPathError"))

C3_Witness ==
    /\ pc = "done"
    /\ run = "second"
    /\ NotARepository
    /\ args.report = Some("html")
    /\ Last(console) = "not_valid_repo"

\* An HTML report is requested of a build whose HTML renderer did not import.
HtmlRequestedUnavailable ==
    /\ IsSome(args.report)
    /\ Lower(The(args.report)) = "html"
    /\ ~build.generate_html_report

\* C4: when an HTML report is requested and the renderer is unavailable, a
\* run that got its statistics prints the warning at the report step, writes
\* no HTML file (nor any other file), prints "Analysis complete" and returns
\* the analysis result.
C4_HtmlUnavailableWarns ==
    (HtmlRequestedUnavailable /\ IsSome(repo_results)) =>
        /\ pc \in {"scan", "report", "complete", "done"}
        /\ emitted = {}
        /\ \A f \in fs : f.kind \notin {"html", "png"}
        /\ (pc = "complete" => Last(console) = "html_unavailable")
        /\ (pc = "done" =>
               /\ Len(console) >= 2
               /\ console[Len(console) - 1] = "html_unavailable"
               /\ Last(console) = "complete"
               /\ result = Returned(Some([repo |-> The(repo_results),
                                          languages |-> language_sizes,
                                          complexity |-> file_complexity])))

C4_Witness ==
    /\ HtmlRequestedUnavailable
    /\ Succeeded
    /\ "html_unavailable" \in Range(console)
    /\ "html" \notin Kinds(fs)

\* C5: the --report flag accepts json, md and html (click raises no usage
\* error for any of them), and a successful run that was asked for one of the
\* three formats has written the file of exactly that format; asked for none,
\* it has written nothing.
C5_CliAcceptsThreeFormats ==
    /\ (IsSome(argv) /\ The(argv).report \in {Some("json"), Some("md"), Some("html")}
          /\ (IsSome(The(argv).local) => PathExists(The(The(argv).local))))
          => result.status # "usage"
    /\ (Succeeded /\ args.report \in {Some("json"), Some("md"), Some("html")})
          => Kinds(emitted) \cap ReportKinds = {The(args.report)}
    /\ (Succeeded /\ IsNone(args.report)) => emitted = {}

\* C6: when the same call on a local working copy is made twice in succession,
\* the second run returns the language histogram and the complexity map the
\* first run returned.
C6_SecondRunReturnsTheSame ==
    (run = "second" /\ args.mode = "local" /\ Succeeded
        /\ first.status = "returned" /\ IsSome(first.value)) =>
        /\ The(result.value).languages = The(first.value).languages
        /\ The(result.value).complexity = The(first.value).complexity

\* Whether rows are in non-increasing order of their count.
Descending(rows) == \A i, j \in DOMAIN rows : i < j => rows[i][2] >= rows[j][2]
CommitCharts == {f \in fs : f.kind = "png" /\ f.name[1] = "commits"}
LanguageCharts == {f \in fs : f.kind = "png" /\ f.name[1] = "languages"}

\* C7: the Markdown report a run writes has an author table in descending
\* order of commit count, and has a commit-chart (language-chart) image link
\* only if that chart exists, the link's target being the chart's path.
C7_MarkdownTableAndLinks ==
    IsSome(md_doc) =>
        LET d == The(md_doc) IN
        /\ IsSome(d.table)
        /\ Descending(The(d.table))
        /\ Range(The(d.table)) = Range(The(repo_results).authors)
        /\ IsSome(d.commit_link) =>
              /\ CommitCharts # {}
              /\ The(d.commit_link).kind = "path"
        /\ IsSome(d.language_link) =>
              /\ LanguageCharts # {}
              /\ The(d.language_link).kind = "path"

\* An option or argument of the command line counts as given when it carries
\* a non-empty value.
Given(o) == o # None /\ o # Some(EmptyString)
FromAnalyze == IsSome(argv) /\ The(argv).cmd = "analyze"
NotStarted ==
    /\ args = NoArgs
    /\ repo_results = None
    /\ fs = InitialFiles
    /\ made_dirs = {}

\* C11: on a command line click accepts, the analyze command enters
\* analyze_repository with the --local value as a local source when --local
\* is given; otherwise with the --url value as a url source (the one that is
\* cloned) when --url is given; otherwise with the positional path as a local
\* source; and with none of the three given it echoes the hint and ends
\* without entering analyze_repository.  The report and the two flags are
\* passed on unchanged.
C11_SourcePrecedence ==
    FromAnalyze =>
        LET a == The(argv) IN
        /\ pc \in {"cli", "resolve", "done"}
        /\ pc = "resolve" =>
              /\ Given(a.local) =>
                    args.mode = "local" /\ args.value = The(a.local)
              /\ (~Given(a.local) /\ Given(a.url)) =>
                    args.mode = "url" /\ args.value = The(a.url)
              /\ (~Given(a.local) /\ ~Given(a.url)) =>
                    /\ Given(a.path)
                    /\ args.mode = "local" /\ args.value = The(a.path)
              /\ args.report = a.report
              /\ args.show_branches = a.show_branches
              /\ args.complexity = a.complexity
        /\ pc = "done" =>
              /\ NotStarted
              /\ result.status \in {"echo", "usage"}
              /\ result.status = "echo" <=>
                    (ClickAccepts(a) /\ ~Given(a.local) /\ ~Given(a.url) /\ ~Given(a.path))
              /\ result.status = "echo" => Last(console) = "provide_path_or_url"

\* All three inputs are given, and the --local value is the source.
C11_Witness ==
    /\ FromAnalyze
    /\ pc = "resolve"
    /\ Given(The(argv).local) /\ Given(The(argv).url) /\ Given(The(argv).path)
    /\ args.mode = "local"
    /\ args.value = The(The(argv).local)

(***************************************************************************)
(* report_builder.build_complexity_table_html on the maps analyze_files    *)
(* builds.  The map is a dict in the order the walk met the files.         *)
(***************************************************************************)
\* The world of the orchestrator, at rest while a function is studied alone.
AtRest ==
    /\ commits = <<Commit(Some("A"))>>
    /\ build = Build(TRUE, TRUE, TRUE)
    /\ fs = InitialFiles
    /\ made_dirs = {}
    /\ run = "first"
    /\ pc = "idle"
    /\ argv = None
    /\ args = NoArgs
    /\ repo_path = ""
    /\ repo_results = None
    /\ file_complexity = None
    /\ language_sizes = {}
    /\ emitted = {}
    /\ md_doc = None
    /\ console = <<>>
    /\ result = Running
    /\ first = Running

\* Contents a scanned file may have: 1, 10, 50, 100, 200 or 300 lines with
\* various keyword counts, or unreadable.
TableTexts == {Unreadable, Text(0, 0, 0, 0, 0), Text(90, 9, 1, 0, 0), Text(95, 9, 0, 0, 3),
               Text(700, 49, 2, 1, 1), Text(1500, 99, 1, 0, 0), Text(3000, 199, 1, 0, 0),
               Text(5000, 299, 0, 1, 1)}

DefaultMaxRows == 20
HtmlMaxRows == 25
MaxRowsChoices == {1, 2, DefaultMaxRows, HtmlMaxRows}

\* meta.get(k), and "x or y" on its results
GetOr(meta, k, default) == IF IsSome(Get(meta, k)) THEN The(Get(meta, k)) ELSE default
Truthy(o) == IsSome(o) /\ The(o) # 0
OrElse(o, other) == IF Truthy(o) THEN o ELSE other

\* report_builder.py 109-122: one row of the table; the score is kept times
\* 100, so that funcs * (lines / 100) stays an integer.  The float the code
\* computes orders two files as the exact value does whenever the exact
\* values differ (they differ by at least 1/100).
TableRow(f, meta) ==
    LET lines == Get(meta, "lines")
        found == OrElse(Get(meta, "functions"),
                        OrElse(Get(meta, "funcs"), Get(meta, "func_count")))
        funcs == IF Truthy(found) THEN The(found) ELSE 0
        score100 == IF "complexity" \in Keys(meta) THEN 100 * GetOr(meta, "complexity", 0)
                    ELSE funcs * (IF Truthy(lines) THEN The(lines) ELSE 100)
    IN  [file |-> f, score100 |-> score100,
         lines |-> IF Truthy(lines) THEN lines ELSE None, funcs |-> funcs]

\* rows.sort(key=score) without reverse=True
RECURSIVE SortRowsAscending(_)
SortRowsAscending(rows) ==
    IF rows = <<>> THEN <<>>
    ELSE LET rest == SortRowsAscending(Tail(rows))
             x == rows[1]
         IN  SelectSeq(rest, LAMBDA y : y.score100 < x.score100) \o <<x>>
               \o SelectSeq(rest, LAMBDA y : y.score100 >= x.score100)

\* rows.sort(key=lambda r: r[1], reverse=True) (report_builder.py 124): stable
RECURSIVE SortRows(_)
SortRows(rows) ==
    IF rows = <<>> THEN <<>>
    ELSE LET rest == SortRows(Tail(rows))
             x == rows[1]
         IN  SelectSeq(rest, LAMBDA y : y.score100 > x.score100) \o <<x>>
               \o SelectSeq(rest, LAMBDA y : y.score100 <= x.score100)

\* seq[:n]
Take(seq, n) == SubSeq(seq, 1, IF n < Len(seq) THEN n ELSE Len(seq))
\* seq[n:]
Drop(seq, n) == SubSeq(seq, (IF n < Len(seq) THEN n ELSE Len(seq)) + 1, Len(seq))

\* build_complexity_table_html (report_builder.py 98-131): the rows of the
\* table, or the placeholder paragraph (None) for an empty map.
build_complexity_table_html(map, max_rows) ==
    IF map = <<>> THEN None
    ELSE Some(Take(SortRows([i \in DOMAIN map |-> TableRow(map[i][1], map[i][2])]),
                   max_rows))

InitTable ==
    /\ AtRest
    /\ fn_input = <<>>
    /\ fn_output = NotCalled

\* analyze_files (file_scanner.py 21-27): the next file of the walk is scanned
ScanNextFile ==
    /\ Len(fn_input) < MaxFiles
    /\ \E text \in TableTexts :
          fn_input' = Append(fn_input, <<Len(fn_input) + 1, scan_complexity(text)>>)
    /\ fn_output' = NotCalled
    /\ UNCHANGED runVars

BuildTable ==
    /\ ~fn_output.called
    /\ \E max_rows \in MaxRowsChoices :
          fn_output' = Called(max_rows, None, build_complexity_table_html(fn_input, max_rows))
    /\ UNCHANGED <<runVars, fn_input>>

NextTable ==
    \/ ScanNextFile
    \/ BuildTable

SpecTable == InitTable /\ [][NextTable]_vars

\* What a metric record holds, read without the table's code.
Field(meta, k) == (CHOOSE p \in meta : p[1] = k)[2]
LinesOf(meta) == IF meta = {} THEN 0 ELSE Field(meta, "lines")
FunctionsOf(meta) == IF meta = {} THEN 0 ELSE Field(meta, "functions")
MetaOf(f) == CHOOSE i \in DOMAIN fn_input : fn_input[i][1] = f
ShownFiles == {The(fn_output.plot)[i].file : i \in DOMAIN The(fn_output.plot)}
AllFiles == {fn_input[i][1] : i \in DOMAIN fn_input}

\* 100 times functions * max(lines / 100, 1); 0 for an empty record
ScoreWithFloor100(meta) ==
    IF meta = {} THEN 0
    ELSE FunctionsOf(meta) * (IF LinesOf(meta) > 100 THEN LinesOf(meta) ELSE 100)
\* 100 times functions * lines / 100; 0 for an empty record
ScoreByLines100(meta) == IF meta = {} THEN 0 ELSE FunctionsOf(meta) * LinesOf(meta)

\* The table shows at most max_rows files, each once and each of the map, in
\* non-increasing order of score, no omitted file scoring strictly higher than
\* a shown one, the score of a file being the floored score of its metric record or the
\* score by lines.
RankedBy(floored) ==
    (fn_output.called /\ fn_input # <<>>) =>
        LET shown == The(fn_output.plot)
            meta(f) == fn_input[MetaOf(f)][2]
            Score(m) == IF floored THEN ScoreWithFloor100(m) ELSE ScoreByLines100(m)
        IN  /\ Len(shown) <= fn_output.max_rows
            /\ Len(shown) = (IF Len(fn_input) < fn_output.max_rows
                             THEN Len(fn_input) ELSE fn_output.max_rows)
            /\ ShownFiles \subseteq AllFiles
            /\ Cardinality(ShownFiles) = Len(shown)
            /\ \A i \in DOMAIN shown : shown[i].score100 = Score(meta(shown[i].file))
            /\ \A i, j \in DOMAIN shown :
                  i < j => Score(meta(shown[i].file)) >= Score(meta(shown[j].file))
            /\ \A o \in AllFiles \ ShownFiles : \A f \in ShownFiles :
                  Score(meta(o)) <= Score(meta(f))

\* C8 as stated: the table is capped at max_rows and ranked by the score
\* functions * max(lines/100, 1), under which a file of fewer than 100 lines
\* scores its function count; an empty metric record scores 0.
C8_RankedByFlooredScore == RankedBy(TRUE)

\* C8 as amended: the table is capped at max_rows and ranked, in non-increasing
\* order with no omitted file above a shown one, by the score
\* functions * lines/100 (a file of fewer than 100 lines scores less than its
\* function count); an empty metric record scores 0.
C8_RankedByLineScore == RankedBy(FALSE)

\* Three files, one row: the 50-line file with 4 keywords (score 2.0) and the
\* 10-line file with 3 (score 0.3) are left out for the 300-line file (6.0).
C8_Witness ==
    /\ fn_output.called
    /\ fn_output.max_rows = 1
    /\ Len(fn_input) = 3
    /\ {fn_input[i][2] : i \in DOMAIN fn_input}
          = {scan_complexity(Text(700, 49, 2, 1, 1)), scan_complexity(Text(95, 9, 0, 0, 3)),
             scan_complexity(Text(5000, 299, 0, 1, 1))}
    /\ Len(The(fn_output.plot)) = 1
    /\ The(fn_output.plot)[1].score100 = 600

(***************************************************************************)
(* report_builder.build_language_pie on the histograms the classifier      *)
(* builds: a dict language -> bytes in the order the languages were met.   *)
(***************************************************************************)
LanguageNames == <<"Python", "C", "Go", "Rust", "Java", "Ruby", "Perl", "Lua", "HTML",
                   "JSON", "YAML", "TOML", "Shell">>
\* Total bytes a language may have; an empty file has a lexer and no bytes.
ByteTotals == {0, 2, 5}
TopLanguages == 8

\* sorted(language_sizes.items(), key=lambda t: t[1], reverse=True): stable
RECURSIVE SortItems(_)
SortItems(items) ==
    IF items = <<>> THEN <<>>
    ELSE LET rest == SortItems(Tail(items))
             x == items[1]
         IN  SelectSeq(rest, LAMBDA y : y[2] > x[2]) \o <<x>>
               \o SelectSeq(rest, LAMBDA y : y[2] <= x[2])

\* items[9:], one language lost between the top and the rest
PieOtherOffByOne(items) == Drop(items, TopLanguages + 1)
\* other = items[8:] (report_builder.py 82)
PieOther(items) == Drop(items, TopLanguages)

\* build_language_pie (report_builder.py 71-95): what it returns (the path of
\* the image, None for an empty histogram) and the labels and sizes it plots.
build_language_pie(language_sizes_, out_path) ==
    IF language_sizes_ = <<>> THEN Called(0, None, None)
    ELSE LET items == SortItems(language_sizes_)
             top == Take(items, TopLanguages)
             other == PieOther(items)
             labels == [i \in DOMAIN top |-> top[i][1]]
             sizes == [i \in DOMAIN top |-> top[i][2]]
         IN  Called(0, Some(out_path),
                    Some(IF other # <<>>
                         THEN [labels |-> Append(labels, "Other"),
                               sizes |-> Append(sizes,
                                   SumSeq([i \in DOMAIN other |-> other[i][2]]))]
                         ELSE [labels |-> labels, sizes |-> sizes]))

InitPie ==
    /\ AtRest
    /\ fn_input = <<>>
    /\ fn_output = NotCalled

\* get_language_usage (analyzer.py 69-71) meets a language it has not seen
ClassifyLanguage ==
    /\ Len(fn_input) < MaxLanguages
    /\ \E bytes \in ByteTotals :
          fn_input' = Append(fn_input, <<LanguageNames[Len(fn_input) + 1], bytes>>)
    /\ fn_output' = NotCalled
    /\ UNCHANGED runVars

BuildPie ==
    /\ ~fn_output.called
    /\ fn_output' = build_language_pie(fn_input, "languages.png")
    /\ UNCHANGED <<runVars, fn_input>>

NextPie ==
    \/ ClassifyLanguage
    \/ BuildPie

SpecPie == InitPie /\ [][NextPie]_vars

Min(a, b) == IF a < b THEN a ELSE b
SizeOf(lang) == (CHOOSE i \in DOMAIN fn_input : fn_input[i][1] = lang)
InputTotal == SumSeq([i \in DOMAIN fn_input |-> fn_input[i][2]])
BytesOf(lang) == fn_input[SizeOf(lang)][2]
RECURSIVE SumBytesOf(_)
SumBytesOf(langs) ==
    IF langs = {} THEN 0
    ELSE LET l == CHOOSE x \in langs : TRUE IN BytesOf(l) + SumBytesOf(langs \ {l})

\* C9: for a non-empty histogram of n languages the pie has min(n, 8) language
\* slices, each a different language of the histogram with its byte size, in
\* descending order of size, no unplotted language being larger than a plotted
\* one; exactly when n > 8 one more slice, "Other", follows, whose size is the
\* sum over the unplotted languages; the slices sum to the histogram's total.
\* For an empty histogram nothing is plotted and None is returned.
C9_PieTopEight ==
    fn_output.called =>
        IF fn_input = <<>> THEN fn_output.ret = None /\ fn_output.plot = None
        ELSE LET n == Len(fn_input)
                 k == Min(n, 8)
                 labels == The(fn_output.plot).labels
                 sizes == The(fn_output.plot).sizes
                 plotted == {labels[i] : i \in 1..k}
                 all == {fn_input[i][1] : i \in 1..n}
             IN  /\ fn_output.ret = Some("languages.png")
                 /\ Len(labels) = Len(sizes)
                 /\ Len(labels) = (IF n > 8 THEN 9 ELSE n)
                 /\ plotted \subseteq all
                 /\ Cardinality(plotted) = k
                 /\ \A i \in 1..k : sizes[i] = BytesOf(labels[i])
                 /\ \A i, j \in 1..k : i < j => sizes[i] >= sizes[j]
                 /\ \A o \in all \ plotted : \A i \in 1..k : BytesOf(o) <= sizes[i]
                 /\ n > 8 => /\ labels[9] = "Other"
                             /\ sizes[9] = SumBytesOf(all \ plotted)
                 /\ n <= 8 => "Other" \notin Range(labels)
                 /\ SumSeq(sizes) = InputTotal

\* Nine languages of mixed sizes: eight slices and an "Other" of 2 bytes.
C9_Witness ==
    /\ fn_output.called
    /\ Len(fn_input) = 9
    /\ {fn_input[i][2] : i \in DOMAIN fn_input} = {2, 5}
    /\ fn_input[1][2] = 2
    /\ Len(The(fn_output.plot).labels) = 9
    /\ The(fn_output.plot).labels[9] = "Other"
    /\ The(fn_output.plot).sizes[9] = 2
    /\ The(fn_output.plot).labels[1] # "Python"

(***************************************************************************)
(* report_builder.build_commit_frequency_chart on the ISO strings that     *)
(* generate_html_report makes of the commit datetimes                      *)
(* (report_builder.py 172).  A string is a sequence of one-character       *)
(* strings; a datetime is <<year, month, day, hour>>.                      *)
(***************************************************************************)
CommitTimes == {<<1999, 12, 31, 23>>, <<2000, 1, 1, 0>>, <<2000, 9, 2, 7>>,
                <<2000, 9, 30, 12>>, <<2000, 10, 1, 5>>}

Digits == <<"0", "1", "2", "3", "4", "5", "6", "7", "8", "9">>
DigitChar(n) == Digits[n + 1]
DigitValue(c) == (CHOOSE i \in DOMAIN Digits : Digits[i] = c) - 1
IsDigit(c) == \E i \in DOMAIN Digits : Digits[i] = c
\* zero-padded decimal of n in w characters
RECURSIVE Padded(_, _)
Padded(n, w) == IF w = 0 THEN <<>> ELSE Append(Padded(n \div 10, w - 1), DigitChar(n % 10))
RECURSIVE Number(_)
Number(cs) == IF cs = <<>> THEN 0 ELSE 10 * Number(SubSeq(cs, 1, Len(cs) - 1))
                                        + DigitValue(cs[Len(cs)])
AllDigits(cs) == \A i \in DOMAIN cs : IsDigit(cs[i])

\* datetime.isoformat(), to the hour: "YYYY-MM-DDThh"
isoformat(d) == Padded(d[1], 4) \o <<"-">> \o Padded(d[2], 2) \o <<"-">>
                  \o Padded(d[3], 2) \o <<"T">> \o Padded(d[4], 2)

\* datetime.fromisoformat(s), else datetime.strptime(s, "%Y-%m")
\* (report_builder.py 35-42); None when both raise.
parse_date(s) ==
    IF /\ Len(s) = 13 /\ s[5] = "-" /\ s[8] = "-" /\ s[11] = "T"
       /\ AllDigits(SubSeq(s, 1, 4) \o SubSeq(s, 6, 7) \o SubSeq(s, 9, 10) \o SubSeq(s, 12, 13))
    THEN Some(<<Number(SubSeq(s, 1, 4)), Number(SubSeq(s, 6, 7)), Number(SubSeq(s, 9, 10)),
                Number(SubSeq(s, 12, 13))>>)
    ELSE IF Len(s) = 7 /\ s[5] = "-" /\ AllDigits(SubSeq(s, 1, 4) \o SubSeq(s, 6, 7))
    THEN Some(<<Number(SubSeq(s, 1, 4)), Number(SubSeq(s, 6, 7)), 1, 0>>)
    ELSE None

\* d.strftime("%Y-%m")
month_key(d) == Padded(d[1], 4) \o <<"-">> \o Padded(d[2], 2)

\* The order of str: by code point, "-" before the digits before "T".
CodePoint(c) == IF c = "-" THEN 45 ELSE IF c = "T" THEN 84 ELSE 48 + DigitValue(c)
RECURSIVE StrLess(_, _)
StrLess(a, b) ==
    IF b = <<>> THEN FALSE
    ELSE IF a = <<>> THEN TRUE
    ELSE IF a[1] = b[1] THEN StrLess(Tail(a), Tail(b))
    ELSE CodePoint(a[1]) < CodePoint(b[1])

\* sorted(monthly.keys())
RECURSIVE SortedKeys(_)
SortedKeys(ks) ==
    IF ks = {} THEN <<>>
    ELSE LET least == CHOOSE k \in ks : \A o \in ks \ {k} : StrLess(k, o)
         IN  <<least>> \o SortedKeys(ks \ {least})

\* The loop with a count that starts over when the month changes
RECURSIVE MonthlyRuns(_, _, _)
MonthlyRuns(parsed, monthly, previous) ==
    IF parsed = <<>> THEN monthly
    ELSE LET key == month_key(parsed[1])
             old == IF key = previous THEN GetOr(monthly, key, 0) ELSE 0
         IN  MonthlyRuns(Tail(parsed),
                         {p \in monthly : p[1] # key} \cup {<<key, old + 1>>}, key)
MonthlyOfRuns(parsed) == MonthlyRuns(parsed, {}, <<>>)

\* report_builder.py 48-51: monthly[key] = monthly.get(key, 0) + 1
RECURSIVE MonthlyFrom(_, _)
MonthlyFrom(parsed, monthly) ==
    IF parsed = <<>> THEN monthly
    ELSE LET key == month_key(parsed[1])
         IN  MonthlyFrom(Tail(parsed),
                 {p \in monthly : p[1] # key} \cup {<<key, GetOr(monthly, key, 0) + 1>>})
Monthly(parsed) == MonthlyFrom(parsed, {})

\* build_commit_frequency_chart (report_builder.py 24-68): what it returns
\* and the keys and values it plots.
build_commit_frequency_chart(commit_dates, out_path) ==
    IF commit_dates = <<>> THEN Called(0, None, None)
    ELSE LET tried == [i \in DOMAIN commit_dates |-> parse_date(commit_dates[i])]
             ok == SelectSeq(tried, IsSome)
             parsed == [i \in DOMAIN ok |-> The(ok[i])]
         IN  IF parsed = <<>> THEN Called(0, None, None)
             ELSE LET monthly == Monthly(parsed)
                      keys == SortedKeys(Keys(monthly))
                      values == [i \in DOMAIN keys |-> GetOr(monthly, keys[i], 0)]
                  IN  Called(0, Some(out_path), Some([keys |-> keys, values |-> values]))

iso_dates(dates) == [i \in DOMAIN dates |-> isoformat(dates[i])]

InitChart ==
    /\ AtRest
    /\ fn_input = <<>>
    /\ fn_output = NotCalled

\* One more commit in the sequence of commit datetimes
NextCommitDate ==
    /\ Len(fn_input) < MaxDates
    /\ \E d \in CommitTimes : fn_input' = Append(fn_input, d)
    /\ fn_output' = NotCalled
    /\ UNCHANGED runVars

BuildChart ==
    /\ ~fn_output.called
    /\ fn_output' = build_commit_frequency_chart(iso_dates(fn_input), "commits.png")
    /\ UNCHANGED <<runVars, fn_input>>

NextChart ==
    \/ NextCommitDate
    \/ BuildChart

SpecChart == InitChart /\ [][NextChart]_vars

\* The permutations of 1..n, and a sequence rearranged by one.
Bijections(n) == {f \in [1..n -> 1..n] : \A i, j \in 1..n : f[i] = f[j] => i = j}
Rearranged(seq, f) == [i \in DOMAIN seq |-> seq[f[i]]]
\* The calendar month a plotted key names, counted in months.
KeyMonth(k) == 12 * Number(SubSeq(k, 1, 4)) + Number(SubSeq(k, 6, 7))

\* C10: for a sequence of commit timestamps, the chart built from any
\* permutation of it is the chart built from it (same YYYY-MM keys, same count
\* per key); each key's count is the number of timestamps in that month, so
\* the counts sum to the number of timestamps; and the keys are plotted in
\* strictly ascending month order.
C10_BucketsOrderIndependent ==
    (fn_output.called /\ fn_input # <<>>) =>
        LET keys == The(fn_output.plot).keys
            values == The(fn_output.plot).values
        IN  /\ \A f \in Bijections(Len(fn_input)) :
                  build_commit_frequency_chart(iso_dates(Rearranged(fn_input, f)),
                                               "commits.png") = fn_output
            /\ Len(keys) = Len(values)
            /\ \A i \in DOMAIN keys :
                  /\ Len(keys[i]) = 7
                  /\ keys[i][5] = "-"
                  /\ values[i] = Cardinality({j \in DOMAIN fn_input :
                                    12 * fn_input[j][1] + fn_input[j][2] = KeyMonth(keys[i])})
                  /\ values[i] > 0
            /\ SumSeq(values) = Len(fn_input)
            /\ \A i, j \in DOMAIN keys : i < j => KeyMonth(keys[i]) < KeyMonth(keys[j])

\* September 2000, December 1999, September 2000 again: two buckets, the
\* earlier month first, the two September commits counted together.
C10_Witness ==
    /\ fn_output.called
    /\ fn_input = <<(<<2000, 9, 30, 12>>), (<<1999, 12, 31, 23>>), (<<2000, 9, 2, 7>>)>>
    /\ The(fn_output.plot).keys = <<(<<"1", "9", "9", "9", "-", "1", "2">>),
                                    (<<"2", "0", "0", "0", "-", "0", "9">>)>>
    /\ The(fn_output.plot).values = <<1, 2>>

====
